---- MODULE Spec2Model ----
(***************************************************************************)
(* Account-creation demo worker (src/src/worker/index.ts, its earlier     *)
(* revision src/unnamed/part_000) and the client page                     *)
(* (src/src/react-app/App.tsx).                                            *)
(*                                                                         *)
(* Text is a sequence of tokens.  A token is one character of a field     *)
(* value ("a", " ", "&", ...) or one indivisible piece of syntax          *)
(* ("email", "=", "--", "\r\n", "application/json", ...), so that         *)
(* includes / split / replace / startsWith of the source are computed on  *)
(* sequences exactly as the source computes them on strings.              *)
(***************************************************************************)
EXTENDS Integers, Sequences, FiniteSets, TLC

VARIABLES request, locals, response, app, inFlight, outcome

\* the page: the state of App, its requests in flight, and how the last
\* submission ended
client == <<app, inFlight, outcome>>

vars == <<request, locals, response, app, inFlight, outcome>>

-----------------------------------------------------------------------------
(* Bounds of the model *)

\* longest email value a request carries
MaxEmailLen == 2
\* longest password value a request carries
MaxPasswordLen == 1

-----------------------------------------------------------------------------
(* String primitives of the JavaScript runtime, on token sequences *)

CRLF == "\r\n"
QUOTE == "\""

RECURSIVE SeqsUpTo(_, _)
SeqsUpTo(S, n) ==
    IF n = 0 THEN {<<>>}
    ELSE LET shorter == SeqsUpTo(S, n - 1)
         IN shorter \cup {Append(s, c) : s \in {t \in shorter : Len(t) = n - 1}, c \in S}

Last(s) == s[Len(s)]

StartsWith(s, pre) ==
    Len(pre) <= Len(s) /\ SubSeq(s, 1, Len(pre)) = pre

RECURSIVE IndexOfFrom(_, _, _)
IndexOfFrom(s, sub, i) ==
    IF i + Len(sub) - 1 > Len(s) THEN 0
    ELSE IF SubSeq(s, i, i + Len(sub) - 1) = sub THEN i
    ELSE IndexOfFrom(s, sub, i + 1)

\* String.prototype.indexOf, 1-based, 0 when absent
IndexOf(s, sub) == IndexOfFrom(s, sub, 1)

\* String.prototype.includes
Includes(s, sub) == IndexOf(s, sub) # 0

\* String.prototype.split with a non-empty separator
RECURSIVE Split(_, _)
Split(s, sep) ==
    LET i == IndexOf(s, sep)
    IN IF i = 0 THEN <<s>>
       ELSE <<SubSeq(s, 1, i - 1)>> \o Split(SubSeq(s, i + Len(sep), Len(s)), sep)

WhiteSpace == {" ", CRLF}

RECURSIVE TrimStart(_)
TrimStart(s) ==
    IF s # <<>> /\ Head(s) \in WhiteSpace THEN TrimStart(Tail(s)) ELSE s

RECURSIVE TrimEnd(_)
TrimEnd(s) ==
    IF s # <<>> /\ Last(s) \in WhiteSpace THEN TrimEnd(SubSeq(s, 1, Len(s) - 1)) ELSE s

\* String.prototype.trim
Trim(s) == TrimEnd(TrimStart(s))

RECURSIVE Concat(_)
Concat(ss) == IF ss = <<>> THEN <<>> ELSE Head(ss) \o Concat(Tail(ss))

LowerToken(c) ==
    CASE c = "Application/JSON" -> "application/json"
      [] c = "Application/X-WWW-Form-Urlencoded" -> "application/x-www-form-urlencoded"
      [] c = "TEXT/PLAIN" -> "text/plain"
      [] c = "EMAIL" -> "email"
      [] c = "PASSWORD" -> "password"
      [] OTHER -> c

\* String.prototype.toLowerCase
ToLowerCase(s) == [i \in 1..Len(s) |-> LowerToken(s[i])]

-----------------------------------------------------------------------------
(* JavaScript values *)

Undefined == [t |-> "undefined", v |-> <<>>]
Null == [t |-> "null", v |-> <<>>]
True == [t |-> "boolean", v |-> <<"true">>]
Num(n) == [t |-> "number", v |-> <<n>>]
Str(s) == [t |-> "string", v |-> s]

\* ToBoolean: the values that make !x true
Falsy(x) ==
    \/ x.t \in {"undefined", "null"}
    \/ x.t = "string" /\ x.v = <<>>
    \/ x.t = "number" /\ x.v = <<"0">>

\* a ?? b
Nullish(x, dflt) == IF x.t \in {"undefined", "null"} THEN dflt ELSE x

\* String(x) of a form value (always a string) or of the default ""
StringOf(x) == x.v

-----------------------------------------------------------------------------
(* JSON text: JSON.stringify on the sending side, JSON.parse behind       *)
(* c.req.json() on the receiving side                                     *)

JsonValueText(x) ==
    CASE x.t = "string" -> <<QUOTE>> \o x.v \o <<QUOTE>>
      [] x.t = "null" -> <<"null">>
      [] OTHER -> x.v

JsonMember(name, x) ==
    IF x.t = "undefined" THEN <<>> ELSE <<<<QUOTE, name, QUOTE, ":">> \o JsonValueText(x)>>

RECURSIVE Join(_, _)
Join(parts, sep) ==
    IF parts = <<>> THEN <<>>
    ELSE IF Len(parts) = 1 THEN parts[1]
    ELSE parts[1] \o sep \o Join(Tail(parts), sep)

\* JSON.stringify({ email, password }): members holding undefined are left out
JsonStringify(doc) ==
    IF doc.t = "null" THEN <<"null">>
    ELSE <<"{">> \o Join(JsonMember("email", doc.email) \o JsonMember("password", doc.password),
                         <<",">>) \o <<"}">>

JsonLiteralOk(lit) ==
    \/ lit \in {<<"null">>, <<"true">>, <<"0">>, <<"7">>}
    \/ /\ Len(lit) >= 2
       /\ lit[1] = QUOTE
       /\ Last(lit) = QUOTE
       /\ ~Includes(SubSeq(lit, 2, Len(lit) - 1), <<QUOTE>>)

JsonLiteralValue(lit) ==
    CASE lit = <<"null">> -> Null
      [] lit = <<"true">> -> True
      [] lit \in {<<"0">>, <<"7">>} -> Num(lit[1])
      [] OTHER -> Str(SubSeq(lit, 2, Len(lit) - 1))

JsonMemberOk(m) ==
    /\ Len(m) >= 5
    /\ m[1] = QUOTE
    /\ m[3] = QUOTE
    /\ m[4] = ":"
    /\ JsonLiteralOk(SubSeq(m, 5, Len(m)))

RECURSIVE JsonLookup(_, _)
JsonLookup(members, name) ==
    IF members = <<>> THEN Undefined
    ELSE LET m == Last(members)
         IN IF m[2] = name THEN JsonLiteralValue(SubSeq(m, 5, Len(m)))
            ELSE JsonLookup(SubSeq(members, 1, Len(members) - 1), name)

\* JSON.parse: a thrown SyntaxError, the value null, or an object
JsonParse(text) ==
    IF text = <<"null">> THEN [threw |-> FALSE, t |-> "null", email |-> Undefined, password |-> Undefined]
    ELSE IF Len(text) >= 2 /\ text[1] = "{" /\ Last(text) = "}"
    THEN LET inner == SubSeq(text, 2, Len(text) - 1)
             members == IF inner = <<>> THEN <<>> ELSE Split(inner, <<",">>)
         IN IF \A i \in 1..Len(members) : JsonMemberOk(members[i])
            THEN [threw |-> FALSE, t |-> "object",
                  email |-> JsonLookup(members, "email"),
                  password |-> JsonLookup(members, "password")]
            ELSE [threw |-> TRUE, t |-> "SyntaxError", email |-> Undefined, password |-> Undefined]
    ELSE [threw |-> TRUE, t |-> "SyntaxError", email |-> Undefined, password |-> Undefined]

-----------------------------------------------------------------------------
(* application/x-www-form-urlencoded: the browser's serializer on form    *)
(* submission, and the parser behind Request.formData()                   *)

Field(name, value) == [name |-> name, value |-> value]

\* bytes outside the urlencoded safe set become %XX, a space becomes +
UrlEncodeToken(c) ==
    CASE c = " " -> <<"+">>
      [] c = "&" -> <<"%", "2", "6">>
      [] c = "=" -> <<"%", "3", "D">>
      [] c = "+" -> <<"%", "2", "B">>
      [] c = "%" -> <<"%", "2", "5">>
      [] OTHER -> <<c>>

UrlEncodeText(s) == Concat([i \in 1..Len(s) |-> UrlEncodeToken(s[i])])

UrlEncode(fields) ==
    Join([i \in 1..Len(fields) |->
            UrlEncodeText(fields[i].name) \o <<"=">> \o UrlEncodeText(fields[i].value)],
         <<"&">>)

HexPairs == {<<"2", "6">>, <<"3", "D">>, <<"2", "B">>, <<"2", "5">>, <<"2", "0">>, <<"3", "1">>}

HexValue(pair) ==
    CASE pair = <<"2", "6">> -> "&"
      [] pair = <<"3", "D">> -> "="
      [] pair = <<"2", "B">> -> "+"
      [] pair = <<"2", "5">> -> "%"
      [] pair = <<"2", "0">> -> " "
      [] pair = <<"3", "1">> -> "1"

\* a decoder that forgets that + stands for a space
PlusKept(s) == s

PlusToSpace(s) == [i \in 1..Len(s) |-> IF s[i] = "+" THEN " " ELSE s[i]]

RECURSIVE PercentDecode(_)
PercentDecode(s) ==
    IF s = <<>> THEN <<>>
    ELSE IF s[1] = "%" /\ Len(s) >= 3 /\ SubSeq(s, 2, 3) \in HexPairs
    THEN <<HexValue(SubSeq(s, 2, 3))>> \o PercentDecode(SubSeq(s, 4, Len(s)))
    ELSE <<s[1]>> \o PercentDecode(Tail(s))

\* one name=value piece: split at the first =, + to space, then percent-decode
UrlDecodePair(piece) ==
    LET i == IndexOf(piece, <<"=">>)
        name == IF i = 0 THEN piece ELSE SubSeq(piece, 1, i - 1)
        value == IF i = 0 THEN <<>> ELSE SubSeq(piece, i + 1, Len(piece))
    IN Field(PercentDecode(PlusToSpace(name)), PercentDecode(PlusToSpace(value)))

RECURSIVE UrlDecodePieces(_)
UrlDecodePieces(pieces) ==
    IF pieces = <<>> THEN <<>>
    ELSE (IF Head(pieces) = <<>> THEN <<>> ELSE <<UrlDecodePair(Head(pieces))>>)
         \o UrlDecodePieces(Tail(pieces))

\* the entry list of a urlencoded body: pieces between &, empty pieces skipped
UrlDecode(text) == UrlDecodePieces(Split(text, <<"&">>))

-----------------------------------------------------------------------------
(* multipart/form-data: the sender's framing with its boundary, and the   *)
(* parser behind Request.formData() using the boundary of the header      *)

CDNAME == "Content-Disposition: form-data; name"

MultipartPart(b, f) ==
    <<"--", b, CRLF, CDNAME, "=", QUOTE>> \o f.name \o <<QUOTE, CRLF, CRLF>> \o f.value \o <<CRLF>>

MultipartEncode(b, fields) ==
    Concat([i \in 1..Len(fields) |-> MultipartPart(b, fields[i])]) \o <<"--", b, "--">>

\* a segment between two delimiters: CRLF, part headers, blank line, value, CRLF
MultipartSegmentOk(seg) ==
    LET sep == IndexOf(seg, <<CRLF, CRLF>>)
    IN /\ Len(seg) >= 8
       /\ seg[1] = CRLF
       /\ SubSeq(seg, 2, 4) = <<CDNAME, "=", QUOTE>>
       /\ sep >= 6
       /\ seg[sep - 1] = QUOTE
       /\ Last(seg) = CRLF
       /\ sep + 2 <= Len(seg)

MultipartSegmentField(seg) ==
    LET sep == IndexOf(seg, <<CRLF, CRLF>>)
    IN Field(SubSeq(seg, 5, sep - 2), SubSeq(seg, sep + 2, Len(seg) - 1))

MultipartParse(text, b) ==
    LET segs == Split(text, <<"--", b>>)
        n == Len(segs)
    IN IF /\ n >= 2
          /\ segs[1] = <<>>
          /\ StartsWith(segs[n], <<"--">>)
          /\ \A i \in 2..(n - 1) : MultipartSegmentOk(segs[i])
       THEN [threw |-> FALSE, fields |-> [i \in 1..(n - 2) |-> MultipartSegmentField(segs[i + 1])]]
       ELSE [threw |-> TRUE, fields |-> <<>>]

-----------------------------------------------------------------------------
(* Requests the worker can receive *)

ValueChars == {"a", " "}
Emails == SeqsUpTo(ValueChars, MaxEmailLen)
Passwords == SeqsUpTo(ValueChars, MaxPasswordLen)

NonStrings == {Undefined, Null, Num("0"), Num("7"), True}

JsonDocs ==
    {[t |-> "null", email |-> Undefined, password |-> Undefined]}
    \cup [t : {"object"},
          email : NonStrings \cup {Str(e) : e \in Emails},
          password : NonStrings \cup {Str(p) : p \in Passwords}]

OptField(name, x) == IF x.t = "undefined" THEN <<>> ELSE <<Field(<<name>>, x.v)>>

\* the fields of a form: email, password and debug, each present or not;
\* and one form that names email twice
FieldLists ==
    {OptField("email", e) \o OptField("password", p) \o OptField("debug", d) :
        e \in {Undefined} \cup {Str(x) : x \in Emails},
        p \in {Undefined} \cup {Str(x) : x \in Passwords},
        d \in {Undefined, Str(<<"1">>)}}
    \cup {<<Field(<<"email">>, <<"a">>), Field(<<"email">>, <<"a">>), Field(<<"password">>, <<"a">>),
            Field(<<"debug">>, <<"1">>)>>}

NoDoc == [t |-> "none", email |-> Undefined, password |-> Undefined]

\* what the sender put into the body
Payloads ==
    [enc : {"json"}, doc : JsonDocs, fields : {<<>>}, boundary : {""}]
    \cup [enc : {"urlencoded"}, doc : {NoDoc}, fields : FieldLists, boundary : {""}]
    \cup [enc : {"multipart"}, doc : {NoDoc}, fields : FieldLists, boundary : {"B"}]
    \cup [enc : {"raw"}, doc : {NoDoc}, fields : {<<>>}, boundary : {""}]

\* the body text the sender produced from it ("raw": a truncated JSON text)
BodyOf(p) ==
    CASE p.enc = "json" -> JsonStringify(p.doc)
      [] p.enc = "urlencoded" -> UrlEncode(p.fields)
      [] p.enc = "multipart" -> MultipartEncode(p.boundary, p.fields)
      [] OTHER -> <<"{", QUOTE, "email", QUOTE>>

ContentTypes ==
    { <<>>,
      <<"application/json">>,
      <<"Application/JSON">>,
      <<"text/plain", "; x=", "application/json">>,
      <<"application/x-www-form-urlencoded">>,
      <<"Application/X-WWW-Form-Urlencoded">>,
      <<"application/x-www-form-urlencoded", "; x=", "application/json">>,
      <<"multipart/form-data", "; boundary=", "B">>,
      <<"multipart/form-data", "; boundary=", "X">>,
      <<"text/plain">>,
      <<"TEXT/PLAIN">> }

Queries == { <<>>, <<"debug", "=", "1">>, <<"debug", "=", "a">> }

ApiRoutes == {"/api/create-account", "/:pathSegment/api/create-account"}
FormRoutes == {"/form-api/create-account", "/__forms/create-account",
               "/:pathSegment/__forms/create-account"}
SegmentRoutes == {"/:pathSegment/api/create-account", "/:pathSegment/__forms/create-account"}

\* the values c.req.param("pathSegment") can have: one path segment, which
\* may hold any character but "/"
UrlSegments == {<<"t">>, <<"&">>}

\* the request the worker sees: route r matched, headers, query and body read
Request(r, seg, ct, q, p) ==
    [origin |-> <<>>, route |-> r,
     pathSegment |-> IF r \in SegmentRoutes THEN Str(seg) ELSE Undefined,
     contentType |-> ct, query |-> q, sent |-> p, body |-> BodyOf(p)]


-----------------------------------------------------------------------------
(* Hono request helpers used by the worker *)

RECURSIVE FirstValue(_, _)
FirstValue(fields, name) ==
    IF fields = <<>> THEN Undefined
    ELSE IF Head(fields).name = name THEN Str(Head(fields).value)
    ELSE FirstValue(Tail(fields), name)

RECURSIVE LastValue(_, _)
LastValue(fields, name) ==
    IF fields = <<>> THEN Undefined
    ELSE IF Last(fields).name = name THEN Str(Last(fields).value)
    ELSE LastValue(SubSeq(fields, 1, Len(fields) - 1), name)

\* c.req.query(name): the first value of the key in the decoded query string
Query(c, name) == FirstValue(UrlDecode(c.query), <<name>>)

\* the path of the request, with the path segment filled into the route
Path(c) ==
    CASE c.route = "/:pathSegment/api/create-account" ->
            <<"/">> \o c.pathSegment.v \o <<"/api/create-account">>
      [] c.route = "/:pathSegment/__forms/create-account" ->
            <<"/">> \o c.pathSegment.v \o <<"/__forms/create-account">>
      [] OTHER -> <<c.route>>

\* c.req.url
Url(c) == c.origin \o Path(c) \o (IF c.query = <<>> THEN <<>> ELSE <<"?">> \o c.query)

\* Request.formData() of the runtime.  A multipart body that does not match
\* the boundary of the header is rejected with a TypeError by a strict
\* runtime and read as an empty entry list by a lenient one.
FormData(c, strict) ==
    IF StartsWith(c.contentType, <<"multipart/form-data">>)
    THEN IF Len(c.contentType) = 3 /\ c.contentType[2] = "; boundary="
         THEN LET parsed == MultipartParse(c.body, c.contentType[3])
              IN IF parsed.threw /\ ~strict THEN [threw |-> FALSE, fields |-> <<>>] ELSE parsed
         ELSE [threw |-> TRUE, fields |-> <<>>]
    ELSE [threw |-> FALSE, fields |-> UrlDecode(c.body)]

\* c.req.parseBody(): form content types (matched as written, from the start
\* of the header) are read with formData(), anything else gives {}
parseBody(c, strict) ==
    IF \/ StartsWith(c.contentType, <<"multipart/form-data">>)
       \/ StartsWith(c.contentType, <<"application/x-www-form-urlencoded">>)
    THEN FormData(c, strict)
    ELSE [threw |-> FALSE, fields |-> <<>>]

\* formData.<key> of the object parseBody builds: the last value wins
Prop(formData, key) == LastValue(formData.fields, <<key>>)

-----------------------------------------------------------------------------
(* handleLogin and parseRequestBody, src/src/worker/index.ts *)

Thrown(strategy, message) ==
    [threw |-> TRUE, error |-> message, strategy |-> strategy, t |-> "none",
     email |-> Undefined, password |-> Undefined]

Parsed(strategy, t, email, password) ==
    [threw |-> FALSE, error |-> <<>>, strategy |-> strategy, t |-> t,
     email |-> email, password |-> password]

\* the declared type compared as written, without lower-casing
DeclaredTypeAsWritten(c) == c.contentType

\* (c.req.header("content-type") ?? "").toLowerCase()
DeclaredType(c) == ToLowerCase(c.contentType)

\* a form branch that takes every remaining content type
IsFormTypeAny(contentType) == TRUE

\* the condition of the form branch
IsFormType(contentType) ==
    \/ Includes(contentType, <<"application/x-www-form-urlencoded">>)
    \/ Includes(contentType, <<"multipart/form-data">>)
    \/ contentType = <<>>

parseRequestBody(c, strict) ==
    LET contentType == DeclaredType(c)
    IN IF Includes(contentType, <<"application/json">>)
       THEN LET json == JsonParse(c.body)
            IN IF json.threw THEN Thrown("json", <<"SyntaxError">>)
               ELSE Parsed("json", json.t, json.email, json.password)
       ELSE IF IsFormType(contentType)
       THEN LET formData == parseBody(c, strict)
            IN IF formData.threw THEN Thrown("form", <<"TypeError">>)
               ELSE Parsed("form", "object",
                           Str(StringOf(Nullish(Prop(formData, "email"), Str(<<>>)))),
                           Str(StringOf(Nullish(Prop(formData, "password"), Str(<<>>)))))
       ELSE Thrown("unsupported", <<"Unsupported content type: ">> \o contentType)

\* c.json(...)
Json(handler, status, message, email, pathSegment, error) ==
    [handler |-> handler, status |-> status, type |-> "application/json",
     message |-> message, email |-> email, pathSegment |-> pathSegment, error |-> error]

\* the members of the body c.json(...) sends: JSON.stringify leaves out a
\* member whose value is undefined
JsonBodyMembers(res) ==
    {"message"} \cup {k \in {"email", "pathSegment"} : res[k].t # "undefined"}

\* the state before a handler has run
NoLocals ==
    [handler |-> "none", strategy |-> "none", threw |-> FALSE,
     email |-> Undefined, password |-> Undefined, debug |-> FALSE]
NoResponse == Json("none", 0, "", Undefined, Undefined, <<>>)

\* a catch block that reports a server error
LoginCatch500(handler, error) ==
    Json(handler, 500, "Invalid request", Undefined, Undefined, error)

\* the response of the catch block
LoginCatch(handler, error) ==
    Json(handler, 400, "Invalid request", Undefined, Undefined, error)

\* a success response that leaves the path segment out
LoginSuccessNoSegment(handler, body, pathSegment) ==
    Json(handler, 200, "Login successful", body.email, Undefined, <<>>)

\* a success response that echoes the trimmed email
LoginSuccessTrimmed(handler, body, pathSegment) ==
    Json(handler, 200, "Login successful", Str(Trim(body.email.v)), pathSegment, <<>>)

\* the response of a validated request
LoginSuccess(handler, body, pathSegment) ==
    Json(handler, 200, "Login successful", body.email, pathSegment, <<>>)

\* the locals of a handleLogin call when it returns
LoginLocals(handler, body) ==
    [handler |-> handler, strategy |-> body.strategy, threw |-> body.threw,
     email |-> body.email, password |-> body.password, debug |-> FALSE]

\* the body of handleLogin's try block, after the request body was obtained
LoginResponse(handler, body, pathSegment) ==
    IF body.threw
    THEN LoginCatch(handler, body.error)
    ELSE IF body.t = "null"
    THEN LoginCatch(handler, <<"TypeError">>)
    ELSE IF Falsy(body.email) \/ Falsy(body.password)
    THEN Json(handler, 400, "Email and password are required", Undefined, Undefined, <<>>)
    ELSE IF body.email.t # "string"
    THEN LoginCatch(handler, <<"TypeError">>)
    ELSE IF Trim(body.email.v) = <<>>
    THEN Json(handler, 400, "Email and password cannot be empty", Undefined, Undefined, <<>>)
    ELSE IF body.password.t # "string"
    THEN LoginCatch(handler, <<"TypeError">>)
    ELSE IF Trim(body.password.v) = <<>>
    THEN Json(handler, 400, "Email and password cannot be empty", Undefined, Undefined, <<>>)
    ELSE LoginSuccess(handler, body, pathSegment)

handleLogin(c, pathSegment, strict) ==
    LET body == parseRequestBody(c, strict)
    IN [locals |-> LoginLocals("handleLogin", body),
        response |-> LoginResponse("handleLogin", body, pathSegment)]

(* handleLogin of the earlier revision, src/unnamed/part_000: the body is *)
(* always read as JSON                                                    *)
part000HandleLogin(c, pathSegment) ==
    LET json == JsonParse(c.body)
        body == IF json.threw THEN Thrown("json", <<"SyntaxError">>)
                ELSE Parsed("json", json.t, json.email, json.password)
    IN [locals |-> LoginLocals("part_000.handleLogin", body),
        response |-> LoginResponse("part_000.handleLogin", body, pathSegment)]

-----------------------------------------------------------------------------
(* handleFormSubmission, src/src/worker/index.ts *)

PreviewLimit == 400

EscapeHtmlToken(c) ==
    CASE c = "&" -> "&amp;"
      [] c = "<" -> "&lt;"
      [] c = ">" -> "&gt;"
      [] c = QUOTE -> "&quot;"
      [] OTHER -> c

escapeHtml(input) == [i \in 1..Len(input) |-> EscapeHtmlToken(input[i])]

\* the escapes JSON.stringify writes inside a string literal
JsonEscapeToken(c) ==
    CASE c = QUOTE -> <<"\\", QUOTE>>
      [] c = CRLF -> <<"\\r\\n">>
      [] OTHER -> <<c>>

JsonString(s) == Concat([i \in 1..Len(s) |-> JsonEscapeToken(s[i])])

\* /(?:^|&)debug=1(?:&|$)/.test(rawText)
DebugFromBody(rawText) ==
    \E i \in 1..Len(rawText) :
        /\ i + 2 <= Len(rawText)
        /\ SubSeq(rawText, i, i + 2) = <<"debug", "=", "1">>
        /\ (i = 1 \/ rawText[i - 1] = "&")
        /\ (i + 2 = Len(rawText) \/ rawText[i + 3] = "&")

RECURSIVE KeyIndexFrom(_, _, _)
KeyIndexFrom(s, key, i) ==
    IF i + 1 > Len(s) THEN 0
    ELSE IF LowerToken(s[i]) = key /\ s[i + 1] = "=" THEN i
    ELSE KeyIndexFrom(s, key, i + 1)

RECURSIVE ValueEnd(_, _)
ValueEnd(s, j) == IF j > Len(s) \/ s[j] = "&" THEN j ELSE ValueEnd(s, j + 1)

\* s.replace(/<key>=[^&]*/i, "<key>=[redacted]"): the first match only
Redact(s, key) ==
    LET i == KeyIndexFrom(s, key, 1)
    IN IF i = 0 THEN s
       ELSE SubSeq(s, 1, i - 1) \o <<key, "=", "[redacted]">>
            \o SubSeq(s, ValueEnd(s, i + 2), Len(s))

redactedRawText(rawText) == Redact(Redact(rawText, "email"), "password")

\* s.slice(0, n)
Slice(s, n) == SubSeq(s, 1, IF Len(s) < n THEN Len(s) ELSE n)

NoDebugInfo == [present |-> FALSE]

\* debugInfo as it is written into the page: JSON.stringify, then escapeHtml
DebugInfo(c, rawText, error, keys, email, password) ==
    [present |-> TRUE,
     pathSegment |-> escapeHtml(JsonString(c.pathSegment.v)),
     url |-> escapeHtml(JsonString(Url(c))),
     contentType |-> escapeHtml(JsonString(c.contentType)),
     error |-> escapeHtml(JsonString(error)),
     preview |-> escapeHtml(JsonString(Slice(redactedRawText(rawText), PreviewLimit))),
     keys |-> {escapeHtml(JsonString(k)) : k \in keys},
     emailLength |-> Len(email),
     passwordLength |-> Len(password)]

\* the targets of the two back links of a page
iframePage(basePath) == basePath \o <<"/form-test.html">>
navigatePage(basePath) == basePath \o <<"/form-test-navigate.html">>

\* c.html(...)
Html(status, title, text, email, basePath, debugInfo) ==
    [handler |-> "handleFormSubmission", status |-> status, type |-> "text/html",
     message |-> title, email |-> email, pathSegment |-> basePath, error |-> text,
     debugInfo |-> debugInfo,
     links |-> <<iframePage(basePath), navigatePage(basePath)>>]

\* the body of a request as a stream the runtime hands out once
BodyStream(data) == [data |-> data, used |-> FALSE]

\* Request.clone(): a second stream over the same bytes; a request whose body
\* was already read cannot be cloned
Clone(stream) == [threw |-> stream.used, stream |-> BodyStream(stream.data)]

\* Request.text(): consumes the stream; a consumed stream cannot be read again
Text(stream) ==
    [threw |-> stream.used,
     text |-> IF stream.used THEN <<>> ELSE stream.data,
     stream |-> [stream EXCEPT !.used = TRUE],
     usedBefore |-> stream.used]

\* a raw read taken from the origin stream itself
RawTextOfOrigin(origin) ==
    LET read == Text(origin)
    IN [threw |-> read.threw, text |-> read.text, origin |-> read.stream,
        reads |-> <<[stream |-> "origin", usedBefore |-> read.usedBefore]>>]

\* await c.req.raw.clone().text()
RawText(origin) ==
    LET clone == Clone(origin)
        read == Text(clone.stream)
    IN IF clone.threw
       THEN [threw |-> TRUE, text |-> <<>>, origin |-> origin, reads |-> <<>>]
       ELSE [threw |-> read.threw, text |-> read.text, origin |-> origin,
             reads |-> <<[stream |-> "clone", usedBefore |-> read.usedBefore]>>]

\* await c.req.parseBody() on the origin stream: a form content type makes
\* it read the stream with formData(), any other type reads nothing
ParseOrigin(c, origin, strict) ==
    IF \/ StartsWith(c.contentType, <<"multipart/form-data">>)
       \/ StartsWith(c.contentType, <<"application/x-www-form-urlencoded">>)
    THEN LET read == Text(origin)
             formData == parseBody([c EXCEPT !.body = read.text], strict)
         IN [threw |-> read.threw \/ formData.threw,
             fields |-> IF read.threw THEN <<>> ELSE formData.fields,
             reads |-> <<[stream |-> "origin", usedBefore |-> read.usedBefore]>>]
    ELSE LET formData == parseBody(c, strict)
         IN [threw |-> formData.threw, fields |-> formData.fields, reads |-> <<>>]

FormLocals(threw, debug, email, password, rawText, reads) ==
    [handler |-> "handleFormSubmission", strategy |-> "form", threw |-> threw,
     email |-> Str(email), password |-> Str(password), debug |-> debug,
     rawText |-> rawText, reads |-> reads]

\* a check that rejects only when both fields are empty
RequiredMissingBoth(email, password) == email = <<>> /\ password = <<>>

\* !email || !password
RequiredMissing(email, password) == email = <<>> \/ password = <<>>

handleFormSubmission(c, strict) ==
    LET basePath == IF c.pathSegment.t = "string" /\ c.pathSegment.v # <<>>
                    THEN <<"/">> \o c.pathSegment.v ELSE <<>>
        debugFromQuery == Query(c, "debug") = Str(<<"1">>)
        raw == RawText(BodyStream(c.body))
        rawText == raw.text
        debug == debugFromQuery \/ DebugFromBody(rawText)
        formData == IF raw.threw THEN [threw |-> TRUE, fields |-> <<>>, reads |-> <<>>]
                    ELSE ParseOrigin(c, raw.origin, strict)
        reads == raw.reads \o formData.reads
        email == StringOf(Nullish(Prop(formData, "email"), Str(<<>>)))
        password == StringOf(Nullish(Prop(formData, "password"), Str(<<>>)))
        keys == {formData.fields[i].name : i \in 1..Len(formData.fields)}
    IN IF formData.threw
       THEN [locals |-> FormLocals(TRUE, debug, <<>>, <<>>, rawText, reads),
             response |->
                IF debug
                THEN Html(400, "Debug: /__forms/create-account (parse error)", <<>>, Undefined,
                          basePath, DebugInfo(c, rawText, <<"TypeError">>, {}, <<>>, <<>>))
                ELSE Html(400, "Error", escapeHtml(<<"TypeError">>), Undefined, basePath,
                          NoDebugInfo)]
       ELSE [locals |-> FormLocals(FALSE, debug, email, password, rawText, reads),
             response |->
                IF debug
                THEN Html(200, "Debug: /__forms/create-account", <<>>, Undefined, basePath,
                          DebugInfo(c, rawText, <<>>, keys, email, password))
                ELSE IF RequiredMissing(email, password)
                THEN Html(400, "Error", <<"Email and password are required">>, Undefined,
                          basePath, NoDebugInfo)
                ELSE Html(200, "Account Created Successfully!", <<>>, Str(escapeHtml(email)),
                          basePath, NoDebugInfo)]

-----------------------------------------------------------------------------
(* The worker: one request, drawn from Requests, is routed to its handler *)

\* App after its first render: the useState(...) values, on a page whose
\* path has the given first segment; view 2 is the later App of the file,
\* which has the one "Create account" button
AppMounted(view, pathSegment) ==
    [view |-> view, pathSegment |-> pathSegment,
     email |-> <<"a">>, password |-> <<"a">>,
     error |-> "", loading |-> FALSE, success |-> FALSE]

\* no page is part of the run
NoClient ==
    /\ app = AppMounted(1, <<>>)
    /\ inFlight = <<>>
    /\ outcome = "none"

Init ==
    /\ NoClient
    /\ \E r \in ApiRoutes \cup FormRoutes, seg \in UrlSegments, ct \in ContentTypes,
          q \in Queries, p \in Payloads :
          request = Request(r, seg, ct, q, p)
    /\ locals = NoLocals
    /\ response = NoResponse

Respond(result) ==
    /\ locals' = result.locals
    /\ response' = result.response
    /\ UNCHANGED <<request, client>>

\* app.post("/api/create-account", ...)
PostCreateAccount ==
    /\ response = NoResponse
    /\ request.route = "/api/create-account"
    /\ \E strict \in BOOLEAN : Respond(handleLogin(request, Undefined, strict))

\* app.post("/:pathSegment/api/create-account", ...)
PostSegmentCreateAccount ==
    /\ response = NoResponse
    /\ request.route = "/:pathSegment/api/create-account"
    /\ \E strict \in BOOLEAN : Respond(handleLogin(request, request.pathSegment, strict))

\* app.post("/form-api/create-account", handleFormSubmission)
PostFormApi ==
    /\ response = NoResponse
    /\ request.route = "/form-api/create-account"
    /\ \E strict \in BOOLEAN : Respond(handleFormSubmission(request, strict))

\* app.post("/__forms/create-account", handleFormSubmission)
PostForms ==
    /\ response = NoResponse
    /\ request.route = "/__forms/create-account"
    /\ \E strict \in BOOLEAN : Respond(handleFormSubmission(request, strict))

\* app.post("/:pathSegment/__forms/create-account", handleFormSubmission)
PostSegmentForms ==
    /\ response = NoResponse
    /\ request.route = "/:pathSegment/__forms/create-account"
    /\ \E strict \in BOOLEAN : Respond(handleFormSubmission(request, strict))

\* app.post("/api/create-account", ...) of src/unnamed/part_000
Part000PostCreateAccount ==
    /\ response = NoResponse
    /\ request.route = "/api/create-account"
    /\ Respond(part000HandleLogin(request, Undefined))

\* app.post("/:pathSegment/api/create-account", ...) of src/unnamed/part_000
Part000PostSegmentCreateAccount ==
    /\ response = NoResponse
    /\ request.route = "/:pathSegment/api/create-account"
    /\ Respond(part000HandleLogin(request, request.pathSegment))

Next ==
    \/ PostCreateAccount
    \/ PostSegmentCreateAccount
    \/ PostFormApi
    \/ PostForms
    \/ PostSegmentForms
    \/ Part000PostCreateAccount
    \/ Part000PostSegmentCreateAccount

Spec == Init /\ [][Next]_vars

-----------------------------------------------------------------------------
(* Form posts of the pages: submitForm of src/src/react-app/App.tsx and   *)
(* the forms of generateFormTestPage.  The browser serializes the hidden  *)
(* inputs as application/x-www-form-urlencoded.                           *)

CROSS_ORIGIN_BASE == <<"https://flow-2.jurajuhlar.site">>

ClientChars == {"a", " ", "&", "=", "+", "%"}
ClientEmails == SeqsUpTo(ClientChars, MaxEmailLen)
ClientPasswords == SeqsUpTo(ClientChars, MaxPasswordLen)
\* getPathSegment(): the first segment of the page's path, or ""
PagePathSegments == {<<>>, <<"t">>}

FormPost(route, pathSegment, crossOrigin, fields) ==
    [origin |-> IF crossOrigin THEN CROSS_ORIGIN_BASE ELSE <<>>,
     route |-> route,
     pathSegment |-> IF pathSegment # <<>> THEN Str(pathSegment) ELSE Undefined,
     contentType |-> <<"application/x-www-form-urlencoded">>,
     query |-> <<>>,
     sent |-> [enc |-> "urlencoded", doc |-> NoDoc, fields |-> fields, boundary |-> ""],
     body |-> UrlEncode(fields)]

submitForm(email, password, pathSegment, crossOrigin) ==
    FormPost(IF pathSegment # <<>> THEN "/:pathSegment/api/create-account"
             ELSE "/api/create-account",
             pathSegment, crossOrigin,
             <<Field(<<"email">>, email), Field(<<"password">>, password)>>)

\* sameOriginForm / crossOriginForm of the form test pages, after
\* syncValues() and updateActions()
testPageSubmit(email, password, debugChecked, pathSegment, crossOrigin) ==
    FormPost(IF pathSegment # <<>> THEN "/:pathSegment/__forms/create-account"
             ELSE "/__forms/create-account",
             pathSegment, crossOrigin,
             <<Field(<<"email">>, email), Field(<<"password">>, password),
               Field(<<"debug">>, IF debugChecked THEN <<"1">> ELSE <<>>)>>)

InitRoundTrip ==
    /\ NoClient
    /\ \E e \in ClientEmails, p \in ClientPasswords, seg \in PagePathSegments, x \in BOOLEAN :
          \/ request = submitForm(e, p, seg, x)
          \/ \E d \in BOOLEAN : request = testPageSubmit(e, p, d, seg, x)
    /\ locals = NoLocals
    /\ response = NoResponse

NextRoundTrip ==
    \/ PostCreateAccount
    \/ PostSegmentCreateAccount
    \/ PostForms
    \/ PostSegmentForms

SpecRoundTrip == InitRoundTrip /\ [][NextRoundTrip]_vars

-----------------------------------------------------------------------------
(* App of src/src/react-app/App.tsx: fetch and XHR submissions.  A request  *)
(* is in flight from the send until its promise settles or its load/error   *)
(* event is handled.                                                        *)

NoRequest ==
    [origin |-> <<>>, route |-> "none", pathSegment |-> Undefined, contentType |-> <<>>,
     query |-> <<>>, sent |-> [enc |-> "raw", doc |-> NoDoc, fields |-> <<>>, boundary |-> ""],
     body |-> <<>>]

\* POST url, Content-Type: application/json, body JSON.stringify({ email, password })
JsonPost(email, password, pathSegment, crossOrigin) ==
    LET sent == [enc |-> "json",
                 doc |-> [t |-> "object", email |-> Str(email), password |-> Str(password)],
                 fields |-> <<>>, boundary |-> ""]
    IN [origin |-> IF crossOrigin THEN CROSS_ORIGIN_BASE ELSE <<>>,
        route |-> IF pathSegment # <<>> THEN "/:pathSegment/api/create-account"
                  ELSE "/api/create-account",
        pathSegment |-> IF pathSegment # <<>> THEN Str(pathSegment) ELSE Undefined,
        contentType |-> <<"application/json">>,
        query |-> <<>>, sent |-> sent, body |-> BodyOf(sent)]

\* what the page receives: a status and the result of parsing the body as
\* JSON (a text that does not parse, null, or an object whose message is ""
\* when it has none)
Reply(status, t, message) == [status |-> status, data |-> [t |-> t, message |-> message]]

\* the worker's c.json(...) response as the page receives it
WorkerReply(res) == Reply(res.status, "object", res.message)

\* replies that do not come from the worker's handlers: error pages of the
\* platform or of a proxy, and JSON bodies without a message
OtherReplies ==
    {Reply(502, "invalid", ""), Reply(200, "invalid", ""), Reply(500, "object", ""),
     Reply(404, "null", ""), Reply(200, "null", "")}

\* response.ok; xhr.status >= 200 && xhr.status < 300
Ok(status) == status >= 200 /\ status < 300

\* a submission that leaves the previous error message in place
SubmittingKeepsError(a) == [a EXCEPT !.loading = TRUE, !.success = FALSE]

\* setError(""); setLoading(true); setSuccess(false)
Submitting(a) == [a EXCEPT !.error = "", !.loading = TRUE, !.success = FALSE]

\* the catch block of submitRequest, then its finally block
FetchRejected(a) ==
    [a EXCEPT !.error = "Network error. Please try again.", !.loading = FALSE]

\* a submitRequest whose setLoading(false) is skipped by the early return
FetchSettledNoFinally(a, reply) ==
    IF reply.data.t = "invalid"
    THEN FetchRejected(a)
    ELSE IF ~Ok(reply.status)
    THEN IF reply.data.t = "null"
         THEN FetchRejected(a)
         ELSE [a EXCEPT !.error = IF reply.data.message = "" THEN "Login failed"
                                  ELSE reply.data.message]
    ELSE [a EXCEPT !.success = TRUE, !.loading = FALSE]

\* submitRequest after fetch resolved: response.json(), the response.ok
\* test, and the finally block
FetchSettled(a, reply) ==
    IF reply.data.t = "invalid"
    THEN FetchRejected(a)
    ELSE IF ~Ok(reply.status)
    THEN IF reply.data.t = "null"
         THEN FetchRejected(a)
         ELSE [a EXCEPT !.error = IF reply.data.message = "" THEN "Login failed"
                                  ELSE reply.data.message,
                        !.loading = FALSE]
    ELSE [a EXCEPT !.success = TRUE, !.loading = FALSE]

\* xhr.onload
XhrLoaded(a, reply) ==
    IF reply.data.t = "invalid"
    THEN [a EXCEPT !.loading = FALSE, !.error = "Failed to parse response"]
    ELSE IF Ok(reply.status)
    THEN [a EXCEPT !.loading = FALSE, !.success = TRUE]
    ELSE IF reply.data.t = "null"
    THEN [a EXCEPT !.loading = FALSE, !.error = "Failed to parse response"]
    ELSE [a EXCEPT !.loading = FALSE,
                   !.error = IF reply.data.message = "" THEN "Login failed"
                             ELSE reply.data.message]

\* xhr.onerror
XhrErrored(a) ==
    [a EXCEPT !.loading = FALSE, !.error = "Network error. Please try again."]

\* how a submission ended, in the terms of the page's messages
Outcome(reply) ==
    IF reply.data.t = "invalid" THEN "unparseable"
    ELSE IF Ok(reply.status) THEN "2xx" ELSE "non-2xx"

\* the inputs are required, and the email input holds no surrounding spaces
FormValid(a) == Trim(a.email) # <<>> /\ a.password # <<>>

InitApp ==
    /\ \E view \in {1, 2}, seg \in PagePathSegments : app = AppMounted(view, seg)
    /\ inFlight = <<>>
    /\ outcome = "none"
    /\ request = NoRequest
    /\ locals = NoLocals
    /\ response = NoResponse

\* onChange of the email input (disabled={loading})
SetEmail ==
    /\ ~app.loading
    /\ \E e \in Emails : app' = [app EXCEPT !.email = e]
    /\ UNCHANGED <<request, locals, response, inFlight, outcome>>

\* onChange of the password input (disabled={loading})
SetPassword ==
    /\ ~app.loading
    /\ \E p \in Passwords : app' = [app EXCEPT !.password = p]
    /\ UNCHANGED <<request, locals, response, inFlight, outcome>>

\* the synchronous part of submitRequest / submitXhr / handleSubmit: the
\* three setters and the send
Send(api, crossOrigin) ==
    /\ app' = Submitting(app)
    /\ inFlight' = Append(inFlight, api)
    /\ outcome' = "none"
    /\ request' = JsonPost(app.email, app.password, app.pathSegment, crossOrigin)
    /\ locals' = NoLocals
    /\ response' = NoResponse

\* <form onSubmit={handleFetchSubmit}>, button "Same origin" (disabled={loading})
handleFetchSubmit ==
    /\ app.view = 1 /\ ~app.loading /\ FormValid(app)
    /\ Send("fetch", FALSE)

\* button "Cross origin" of Fetch (disabled={loading})
handleFetchCrossOrigin ==
    /\ app.view = 1 /\ ~app.loading
    /\ Send("fetch", TRUE)

\* the two XHR buttons (disabled={loading}): onClick={() => submitXhr(...)}
submitXhr ==
    /\ app.view = 1 /\ ~app.loading
    /\ \E crossOrigin \in BOOLEAN : Send("xhr", crossOrigin)

\* <form onSubmit={handleSubmit}> of the later App (disabled={loading})
handleSubmit ==
    /\ app.view = 2 /\ ~app.loading /\ FormValid(app)
    /\ Send("fetch", FALSE)

\* the request in flight is over: the worker's slot is cleared
Settled(i) ==
    /\ inFlight' = SubSeq(inFlight, 1, i - 1) \o SubSeq(inFlight, i + 1, Len(inFlight))
    /\ request' = NoRequest
    /\ locals' = NoLocals
    /\ response' = NoResponse

\* the replies a request in flight can get now
Replies == (IF response # NoResponse THEN {WorkerReply(response)} ELSE {}) \cup OtherReplies

\* await fetch(...) resolves; the rest of submitRequest / handleSubmit runs
FetchResolves ==
    \E i \in 1..Len(inFlight), reply \in Replies :
        /\ inFlight[i] = "fetch"
        /\ app' = FetchSettled(app, reply)
        /\ outcome' = Outcome(reply)
        /\ Settled(i)

\* await fetch(...) rejects
FetchRejects ==
    \E i \in 1..Len(inFlight) :
        /\ inFlight[i] = "fetch"
        /\ app' = FetchRejected(app)
        /\ outcome' = "network error"
        /\ Settled(i)

\* the load event of the XHR
XhrOnload ==
    \E i \in 1..Len(inFlight), reply \in Replies :
        /\ inFlight[i] = "xhr"
        /\ app' = XhrLoaded(app, reply)
        /\ outcome' = Outcome(reply)
        /\ Settled(i)

\* the error event of the XHR
XhrOnerror ==
    \E i \in 1..Len(inFlight) :
        /\ inFlight[i] = "xhr"
        /\ app' = XhrErrored(app)
        /\ outcome' = "network error"
        /\ Settled(i)

\* every request in flight ends: the promise of fetch settles, the XHR fires
\* load or error (no timeout is set and nothing aborts it)
Settle == FetchResolves \/ FetchRejects \/ XhrOnload \/ XhrOnerror

NextApp ==
    \/ SetEmail
    \/ SetPassword
    \/ handleFetchSubmit
    \/ handleFetchCrossOrigin
    \/ submitXhr
    \/ handleSubmit
    \/ PostCreateAccount
    \/ PostSegmentCreateAccount
    \/ FetchResolves
    \/ FetchRejects
    \/ XhrOnload
    \/ XhrOnerror

SpecApp == InitApp /\ [][NextApp]_vars

SpecAppLive == SpecApp /\ WF_vars(Settle)

-----------------------------------------------------------------------------
(* Vocabulary of the properties *)

Handled == response # NoResponse

\* what the sender submitted under a field name (the last value when repeated)
Sent(name) ==
    IF request.sent.enc = "json"
    THEN (IF name = "email" THEN request.sent.doc.email ELSE request.sent.doc.password)
    ELSE LastValue(request.sent.fields, <<name>>)

EmptyOrMissing(x) == x.t \in {"undefined", "null"} \/ (x.t = "string" /\ x.v = <<>>)

MissingCredentials == EmptyOrMissing(Sent("email")) \/ EmptyOrMissing(Sent("password"))

NonEmptyTrimmed(x) == x.t = "string" /\ Trim(x.v) # <<>>

IsSuccess == response.message \in {"Login successful", "Account Created Successfully!"}

DebugPages == {"Debug: /__forms/create-account", "Debug: /__forms/create-account (parse error)"}

IsDebugPage == response.message \in DebugPages

DebugInQuery == request.query = <<"debug", "=", "1">>

\* a field debug=1 in the body, in either form encoding
DebugFieldSent ==
    /\ request.sent.enc \in {"urlencoded", "multipart"}
    /\ LastValue(request.sent.fields, <<"debug">>) = Str(<<"1">>)

\* a field debug=1 in a URL-encoded body
DebugFieldUrlEncoded == request.sent.enc = "urlencoded" /\ DebugFieldSent

DeclaresJson == Includes(ToLowerCase(request.contentType), <<"application/json">>)

DeclaresForm ==
    \/ Includes(ToLowerCase(request.contentType), <<"application/x-www-form-urlencoded">>)
    \/ Includes(ToLowerCase(request.contentType), <<"multipart/form-data">>)

DeclaresUnsupported == request.contentType # <<>> /\ ~DeclaresJson /\ ~DeclaresForm

-----------------------------------------------------------------------------
(* C1 *)

\* C1: a POST to an API route that declares application/json and carries
\* {email: e, password: p}, e and p strings non-empty after trimming, is
\* answered 200 with the email field equal to e, untrimmed.
C1_JsonSuccessEchoesEmail ==
    ( /\ Handled
      /\ request.route \in ApiRoutes
      /\ DeclaresJson
      /\ request.sent.enc = "json"
      /\ request.sent.doc.t = "object"
      /\ NonEmptyTrimmed(Sent("email"))
      /\ NonEmptyTrimmed(Sent("password")) )
    => /\ response.status = 200
       /\ response.message = "Login successful"
       /\ response.email = Sent("email")

C1_Witness ==
    /\ locals.handler = "handleLogin"
    /\ request.contentType = <<"Application/JSON">>
    /\ request.sent.enc = "json"
    /\ Sent("email") = Str(<<" ", "a">>)
    /\ response.status = 200
    /\ response.email = Str(<<" ", "a">>)

-----------------------------------------------------------------------------
(* C2 *)

\* C2 as stated: on every create-account endpoint, under any content type and
\* query string, an empty or missing email or password gets a 400 response.
C2_MissingAlways400 ==
    (Handled /\ MissingCredentials) => response.status = 400

\* C2 amended: an empty or missing email or password never gets the success
\* acknowledgement; the response is 400, except that a form route asked for
\* debug=1 (query string, or field of a URL-encoded body) whose body parses
\* answers with the 200 debug page.
C2_MissingNeverSuccess ==
    (Handled /\ MissingCredentials)
    => /\ ~IsSuccess
       /\ \/ response.status = 400
          \/ /\ request.route \in FormRoutes
             /\ DebugInQuery \/ DebugFieldUrlEncoded
             /\ response.status = 200
             /\ response.message = "Debug: /__forms/create-account"

C2_Witness ==
    /\ locals.handler = "handleFormSubmission"
    /\ request.contentType = <<"application/x-www-form-urlencoded">>
    /\ request.sent.enc = "urlencoded"
    /\ Sent("email") = Undefined
    /\ Sent("password") = Str(<<"a">>)
    /\ ~DebugInQuery /\ ~DebugFieldSent
    /\ response.status = 400
    /\ response.error = <<"Email and password are required">>

-----------------------------------------------------------------------------
(* C3 *)

\* C3: a success response implies that the email and the password the
\* handler extracted are both non-empty after trimming, on the API routes and
\* on the form routes alike.
C3_SuccessImpliesTrimmedNonEmpty ==
    (Handled /\ IsSuccess)
    => NonEmptyTrimmed(locals.email) /\ NonEmptyTrimmed(locals.password)

-----------------------------------------------------------------------------
(* C4 *)

\* C4: parseRequestBody picks its strategy from the declared type, compared
\* case-insensitively and by substring: JSON when it contains
\* application/json (also when it contains a form token too); otherwise form
\* parsing when it contains a form token or is empty, and then email and
\* password are strings, "" when the field is absent; otherwise neither.
C4_StrategyByContentType ==
    locals.handler = "handleLogin"
    => /\ DeclaresJson => locals.strategy = "json"
       /\ (~DeclaresJson /\ (DeclaresForm \/ request.contentType = <<>>))
            => /\ locals.strategy = "form"
               /\ ~locals.threw =>
                    /\ locals.email.t = "string"
                    /\ locals.password.t = "string"
                    /\ (request.sent.enc = "json" \/ Sent("email") = Undefined)
                         => locals.email = Str(<<>>)
                    /\ (request.sent.enc = "json" \/ Sent("password") = Undefined)
                         => locals.password = Str(<<>>)
       /\ DeclaresUnsupported => locals.strategy = "unsupported"
       /\ locals.strategy \in {"json", "form", "unsupported"}

C4_Witness ==
    /\ locals.handler = "handleLogin"
    /\ request.contentType = <<"application/x-www-form-urlencoded", "; x=", "application/json">>
    /\ locals.strategy = "json"
    /\ request.sent.enc = "json"
    /\ response.status = 200

-----------------------------------------------------------------------------
(* C5 *)

\* C5 as stated: a request whose declared type is non-empty and contains
\* none of the three supported types gets a 400 response that includes the
\* declared type (in any letter case), and its body is never parsed.
C5_UnsupportedRejectedEverywhere ==
    ( /\ Handled
      /\ locals.handler \in {"handleLogin", "handleFormSubmission"}
      /\ DeclaresUnsupported )
    => /\ response.status = 400
       /\ Includes(ToLowerCase(response.error), ToLowerCase(request.contentType))
       /\ locals.strategy = "unsupported"

\* C5 amended: on the API routes (handleLogin) such a request gets a 400
\* response whose error is "Unsupported content type: " followed by the
\* declared type in lower case, and the body is never parsed; on the form
\* routes such a request is never answered with the success page.
C5_UnsupportedRejectedByApi ==
    /\ (locals.handler = "handleLogin" /\ DeclaresUnsupported)
        => /\ response.status = 400
           /\ response.message = "Invalid request"
           /\ response.error = <<"Unsupported content type: ">> \o ToLowerCase(request.contentType)
           /\ locals.strategy = "unsupported"
    /\ (locals.handler = "handleFormSubmission" /\ DeclaresUnsupported) => ~IsSuccess

C5_Witness ==
    /\ locals.handler = "handleLogin"
    /\ request.contentType = <<"TEXT/PLAIN">>
    /\ request.sent.enc = "json"
    /\ NonEmptyTrimmed(Sent("email")) /\ NonEmptyTrimmed(Sent("password"))
    /\ response.status = 400
    /\ response.error = <<"Unsupported content type: ", "text/plain">>

-----------------------------------------------------------------------------
(* C6 *)

\* C6: a well-framed multipart body with boundary B carrying email and
\* password, posted to a form route with a header that advertises another
\* boundary, is absent, or declares application/x-www-form-urlencoded, is
\* answered with the success page showing the email of the body.
C6_MultipartRecoveredDespiteHeader ==
    ( /\ locals.handler = "handleFormSubmission"
      /\ request.sent.enc = "multipart"
      /\ NonEmptyTrimmed(Sent("email"))
      /\ NonEmptyTrimmed(Sent("password"))
      /\ ~DebugInQuery /\ ~DebugFieldSent
      /\ request.contentType \in { <<>>,
                                   <<"application/x-www-form-urlencoded">>,
                                   <<"multipart/form-data", "; boundary=", "X">> } )
    => /\ response.status = 200
       /\ response.message = "Account Created Successfully!"
       /\ response.email = Str(escapeHtml(Sent("email").v))

-----------------------------------------------------------------------------
(* C7 *)

\* the request-derived texts a debug page shows
DebugTexts ==
    {response.debugInfo.url, response.debugInfo.preview, response.debugInfo.error,
     response.debugInfo.contentType, response.debugInfo.pathSegment}
    \cup response.debugInfo.keys

Shown(x) == x.t = "string" /\ x.v # <<>> /\ \E text \in DebugTexts : Includes(text, x.v)

\* C7: a debug page (either variant) contains neither the submitted email
\* value nor the submitted password value.
C7_DebugPageHidesCredentials ==
    (Handled /\ IsDebugPage) => ~Shown(Sent("email")) /\ ~Shown(Sent("password"))

-----------------------------------------------------------------------------
(* C8 *)

\* C8: on the form routes the debug page is the response exactly when
\* debug=1 is in the query string or is a debug field of the body, in either
\* form encoding.
C8_DebugPageIffRequested ==
    locals.handler = "handleFormSubmission"
    => (IsDebugPage <=> (DebugInQuery \/ DebugFieldSent))

-----------------------------------------------------------------------------
(* C9 *)

\* a JSON body with an email or password member that is not a string
NonStringField ==
    /\ request.sent.enc = "json"
    /\ request.sent.doc.t = "object"
    /\ \/ Sent("email").t \notin {"string", "undefined"}
       \/ Sent("password").t \notin {"string", "undefined"}

\* the request fails: parsing threw (malformed JSON, unsupported content
\* type, body parse failure), a required field is missing, or a JSON field is
\* not a string
Failure == locals.threw \/ MissingCredentials \/ NonStringField

\* C9 as stated: every failure ends in a 400 response.
C9_FailureAlways400 ==
    (Handled /\ Failure) => response.status = 400

\* C9 amended: every handler invocation ends in a 200 or 400 response of the
\* route's kind (JSON with a message on the API routes, HTML on the form
\* routes), and every failure ends in a 400 response, except that a form
\* route asked for debug=1 whose body parsing did not throw answers with the
\* 200 debug page before it validates the fields.
C9_FailureHandled ==
    Handled
    => /\ response.status \in {200, 400}
       /\ response.message # ""
       /\ request.route \in ApiRoutes => response.type = "application/json"
       /\ request.route \in FormRoutes => response.type = "text/html"
       /\ Failure
            => \/ response.status = 400
               \/ /\ request.route \in FormRoutes
                  /\ locals.debug
                  /\ ~locals.threw
                  /\ response.message = "Debug: /__forms/create-account"

C9_Witness ==
    /\ locals.handler = "handleLogin"
    /\ DeclaresJson
    /\ request.sent.enc = "json"
    /\ Sent("email") = Num("7")
    /\ Sent("password") = Str(<<"a">>)
    /\ response.status = 400
    /\ response.message = "Invalid request"
    /\ response.error = <<"TypeError">>

-----------------------------------------------------------------------------
(* C10 *)

\* C10: the email and password a page submits as
\* application/x-www-form-urlencoded are the email and password the server's
\* form parsing extracts, whatever characters they contain.
C10_UrlEncodedRoundTrip ==
    (Handled /\ locals.strategy = "form")
    => /\ ~locals.threw
       /\ locals.email = Sent("email")
       /\ locals.password = Sent("password")

C10_Witness ==
    /\ locals.handler = "handleLogin"
    /\ Sent("email") = Str(<<"+", "%">>)
    /\ Sent("password") = Str(<<"&">>)
    /\ request.body = <<"email", "=", "%", "2", "B", "%", "2", "5", "&",
                        "password", "=", "%", "2", "6">>
    /\ locals.email = Str(<<"+", "%">>)
    /\ locals.password = Str(<<"&">>)
    /\ response.status = 200

\* C11: a successful API response of the segment route carries the segment
\* captured from the URL as pathSegment, a successful response of
\* /api/create-account has no pathSegment member, and the status and message
\* of an API response are the same for every value of the path segment.
C11_PathSegmentEchoed ==
    (Handled /\ response.type = "application/json") =>
        /\ (IsSuccess /\ request.route = "/:pathSegment/api/create-account") =>
                /\ "pathSegment" \in JsonBodyMembers(response)
                /\ response.pathSegment = request.pathSegment
                /\ Includes(Path(request), response.pathSegment.v)
        /\ (IsSuccess /\ request.route = "/api/create-account") =>
                "pathSegment" \notin JsonBodyMembers(response)
        /\ \A seg \in {Undefined} \cup {Str(s) : s \in UrlSegments} :
                \E strict \in BOOLEAN :
                    LET other == IF response.handler = "handleLogin"
                                 THEN handleLogin(request, seg, strict).response
                                 ELSE part000HandleLogin(request, seg).response
                    IN /\ other.status = response.status
                       /\ other.message = response.message

C11_Witness ==
    /\ IsSuccess
    /\ request.route = "/:pathSegment/api/create-account"
    /\ response.handler = "handleLogin"
    /\ response.pathSegment = Str(<<"&">>)

\* C12: handleFormSubmission reads the raw text from a clone and parses the
\* origin stream afterwards: the raw text is the whole body, no read (on the
\* success or the error path) is of a stream that was already consumed, the
\* origin stream is read at most once, and the parsed fields are those
\* c.req.parseBody() gives on the untouched request.
C12_RawReadLeavesOriginUnconsumed ==
    (Handled /\ locals.handler = "handleFormSubmission") =>
        /\ locals.rawText = request.body
        /\ locals.reads # <<>> /\ locals.reads[1].stream = "clone"
        /\ \A i \in 1..Len(locals.reads) : ~locals.reads[i].usedBefore
        /\ Cardinality({i \in 1..Len(locals.reads) : locals.reads[i].stream = "origin"}) <= 1
        /\ \E strict \in BOOLEAN :
              LET formData == parseBody(request, strict)
              IN /\ locals.threw = formData.threw
                 /\ ~formData.threw =>
                      /\ locals.email = Str(StringOf(Nullish(Prop(formData, "email"), Str(<<>>))))
                      /\ locals.password =
                            Str(StringOf(Nullish(Prop(formData, "password"), Str(<<>>))))

C12_Witness ==
    /\ Handled
    /\ locals.handler = "handleFormSubmission"
    /\ Len(locals.reads) = 2
    /\ locals.rawText # <<>>
    /\ locals.email = Str(<<"a">>)
    /\ response.status = 200

\* the request-derived texts an HTML response interpolates
Interpolated ==
    {response.error, response.links[1], response.links[2]}
    \cup (IF response.email.t = "string" THEN {response.email.v} ELSE {})
    \cup (IF response.debugInfo.present THEN DebugTexts ELSE {})

RawMarkup == {"&", "<", ">", QUOTE}

\* C13: no text that handleFormSubmission interpolates into an HTML response
\* (email, error message, debug dump, back links) contains a raw <, >, & or "
\* that came from the request.
C13_NoRawMarkupFromRequest ==
    (Handled /\ response.type = "text/html") =>
        \A text \in Interpolated : \A i \in 1..Len(text) : text[i] \notin RawMarkup

\* C14: a submission that sets loading is followed by loading being cleared,
\* whatever the outcome; loading is set exactly while a request is in flight,
\* no input or submit control acts while loading is set, and at most one
\* request is in flight.
C14_LoadingEventuallyCleared ==
    /\ [](Len(inFlight) <= 1 /\ (app.loading <=> inFlight # <<>>))
    /\ [][app.loading => \/ UNCHANGED client
                         \/ /\ app'.email = app.email
                            /\ app'.password = app.password
                            /\ Len(inFlight') < Len(inFlight)
                            /\ ~app'.loading]_vars
    /\ (app.loading ~> ~app.loading)

C14_Witness ==
    /\ ~app.loading
    /\ outcome = "unparseable"
    /\ app.error = "Failed to parse response"

\* C15: success and a non-empty error message are never set together; both
\* are cleared while a submission is in flight; success is set only after a
\* 2xx response that parsed, an error message only after a non-2xx response,
\* an unparseable response or a network error.
C15_SuccessExcludesError ==
    /\ ~(app.success /\ app.error # "")
    /\ app.loading => (~app.success /\ app.error = "")
    /\ app.success => outcome = "2xx"
    /\ app.error # "" => outcome \in {"non-2xx", "unparseable", "network error"}

C15_Witness ==
    /\ app.success
    /\ outcome = "2xx"
    /\ app.email # <<"a">>

====
